---- MODULE Spec2Model ----
(***************************************************************************)
(* A model of the weather application: the Favorites Store                 *)
(* (contexts/FavoritesContext.tsx), the forecast post-processing and the   *)
(* city-resolution pipeline of hooks/useWeather.ts, with the provider      *)
(* client of services/weatherService.                                      *)
(***************************************************************************)
EXTENDS Integers, Sequences, FiniteSets, TLC

VARIABLES
    \* ---- Favorites Store (FavoritesContext.tsx) ----
    storage,          \* localStorage: key -> stored value
    favorites,        \* useState<FavoriteCity[]>
    lastViewedCity,   \* useState<FavoriteCity | null>
    favPc,            \* "unmounted" before FavoritesProvider's first render, then "mounted"
    added,            \* history: key -> the name an appending addFavorite stored for it
    lastOp,           \* history: the last handler called, with its arguments
    prevFavorites,    \* history: favorites before the last handler ran
    prevLast,         \* history: lastViewedCity before the last handler ran
    rewroteLastCity,  \* history: the last call wrote the last-viewed slot for the key the call
                      \* right before it had written
    loadedFrom,       \* history: the storage the first render read, until the next handler runs
    \* ---- forecast post-processing (useWeatherByCity, lines 178-194) ----
    fcRaw,            \* forecastQuery.data
    fcOut,            \* processedForecast
    fcPc,             \* "raw" before the hook has rendered with the data, then "done"
    \* ---- city-resolution pipeline (HomePage, useWeatherByCity, QueryClient) ----
    homePc,           \* "unmounted" before HomePage's first render, then "mounted"
    searchCity,       \* HomePage's searchCity state
    lang,             \* i18n.language
    locQ,             \* query cache, weatherKeys.location(city, lang)
    infoQ,            \* query cache, weatherKeys.locationByKey(key, lang)
    curQ,             \* query cache, weatherKeys.current(key, lang)
    fcQ,              \* query cache, weatherKeys.forecast(key, lang)
    nSteps,           \* how often the user searched, changed language or refetched
    failOrder,        \* history: the observed queries that failed for this input, earliest first
    started,          \* history: the kinds of query started since the input last changed
    \* ---- one call of a provider-client function (services/weatherService) ----
    call,             \* who calls which function with what, axios' answer, and the outcome
    \* ---- the components and hooks beside the pipeline, one field for each ----
    ui

favVars == <<storage, favorites, lastViewedCity, favPc, added, lastOp, prevFavorites, prevLast,
            rewroteLastCity, loadedFrom>>
fcVars == <<fcRaw, fcOut, fcPc>>
pipeVars == <<homePc, searchCity, lang, locQ, infoQ, curQ, fcQ, nSteps, failOrder, started>>
svcVars == <<call>>
uiVars == <<ui>>
coreVars == <<favVars, fcVars, pipeVars, svcVars>>
vars == <<storage, favorites, lastViewedCity, favPc, added, lastOp, prevFavorites, prevLast,
          rewroteLastCity, loadedFrom,
          fcRaw, fcOut, fcPc,
          homePc, searchCity, lang, locQ, infoQ, curQ, fcQ, nSteps, failOrder, started,
          call,
          ui>>

\* useFavoriteLocations: the hook's argument and language, its query and the lookups of a run
favLocs == ui.favLocs
\* TemperatureProvider: isCelsius, the Celsius value a page holds, and history
temperature == ui.temperature
\* ThemeProvider: localStorage's 'theme', the theme state, and the mount position
themeCtx == ui.themeCtx
\* ErrorBoundary: this.state, what render returned, and the child below
boundary == ui.boundary
\* useGeolocation: the hook's three states and the browser's outstanding requests
geo == ui.geo

\* ------------------------------------------------------------------------
\* Bounds
\* ------------------------------------------------------------------------
MaxStored == 2        \* longest array found in storage at start-up
MaxFavorites == 3     \* longest favorites list built by addFavorite
MaxUserSteps == 2     \* searches, language changes and refetches in one run
MaxCacheSteps == 3    \* the same, in the runs where every request succeeds
MaxLiveSteps == 1     \* the same, in the runs where every request is answered in the end

\* ========================================================================
\* Favorites Store
\* ========================================================================
STORAGE_KEY == "weather_app_favorites_v2"
LAST_CITY_KEY == "weather_app_last_city_v2"
OLD_STORAGE_KEY == "weather_app_favorites"
OLD_LAST_CITY_KEY == "weather_app_last_city"
StorageKeys == {STORAGE_KEY, LAST_CITY_KEY, OLD_STORAGE_KEY, OLD_LAST_CITY_KEY}

\* null / undefined
None == "<none>"
NoCity == [locationKey |-> None, defaultName |-> None]

\* A value inside a parsed JSON array, or a parsed JSON object: its typeof, the
\* fields it has, the typeof of the two fields and their string values.
Item(type, fields, lkType, dnType, lk, dn) ==
    [type |-> type, fields |-> fields, lkType |-> lkType, dnType |-> dnType,
     locationKey |-> lk, defaultName |-> dn]
CityItem(lk, dn) == Item("object", {"locationKey", "defaultName"}, "string", "string", lk, dn)
NullItem == Item("null", {}, "undefined", "undefined", None, None)
LegacyItem == Item("string", {}, "undefined", "undefined", None, None)
NoNameItem == Item("object", {"locationKey"}, "string", "undefined", "328328", None)
NumKeyItem == Item("object", {"locationKey", "defaultName"}, "number", "string", None, "London")

\* What localStorage holds under one key: nothing, the empty string, text that
\* is not JSON, or JSON text (kept parsed: an array of items, or one value).
Absent == [kind |-> "absent", t |-> "none", items |-> <<>>, obj |-> NullItem]
EmptyText == [kind |-> "empty", t |-> "none", items |-> <<>>, obj |-> NullItem]
Garbage == [kind |-> "garbage", t |-> "none", items |-> <<>>, obj |-> NullItem]
JsonArray(items) == [kind |-> "json", t |-> "array", items |-> items, obj |-> NullItem]
JsonValue(item) == [kind |-> "json", t |-> "value", items |-> <<>>, obj |-> item]
\* localStorage is not accessible: getItem and setItem throw
Throws == [kind |-> "throws", t |-> "none", items |-> <<>>, obj |-> NullItem]
GetItemThrows(v) == v.kind = "throws"

\* JSON.stringify of the in-memory values
StringifyFavorites(favs) ==
    JsonArray([i \in 1..Len(favs) |-> CityItem(favs[i].locationKey, favs[i].defaultName)])
StringifyCity(city) == JsonValue(CityItem(city.locationKey, city.defaultName))

\* localStorage.getItem(key) is truthy: present and not the empty string
Truthy(v) == v.kind \notin {"absent", "empty"}

\* the FavoriteCity a validated item is
AsCity(item) == [locationKey |-> item.locationKey, defaultName |-> item.defaultName]

\* isValidFavoriteCity, were defaultName not looked at
isValidFavoriteCityKeyOnly(item) ==
    /\ item.type = "object"
    /\ "locationKey" \in item.fields
    /\ item.lkType = "string"

isValidFavoriteCity(item) ==
    /\ item.type = "object"
    /\ "locationKey" \in item.fields
    /\ "defaultName" \in item.fields
    /\ item.lkType = "string"
    /\ item.dnType = "string"

RECURSIVE FilterValid(_)
FilterValid(items) ==
    IF items = <<>> THEN <<>>
    ELSE IF isValidFavoriteCity(Head(items))
         THEN <<AsCity(Head(items))>> \o FilterValid(Tail(items))
         ELSE FilterValid(Tail(items))

\* loadFavoritesFromStorage: the storage it leaves behind ...
ClearOldFormat(st) ==
    IF ~GetItemThrows(st[OLD_STORAGE_KEY]) /\ Truthy(st[OLD_STORAGE_KEY])
    THEN [st EXCEPT ![OLD_STORAGE_KEY] = Absent, ![OLD_LAST_CITY_KEY] = Absent]
    ELSE st

\* ... and the list it returns
loadFavoritesFromStorage(st) ==
    LET stored == st[STORAGE_KEY] IN
    IF GetItemThrows(st[OLD_STORAGE_KEY]) \/ GetItemThrows(stored) THEN <<>>   \* caught
    ELSE IF ~Truthy(stored) THEN <<>>
    ELSE IF stored.kind = "garbage" THEN <<>>          \* JSON.parse throws
    ELSE IF stored.t # "array" THEN <<>>
    ELSE FilterValid(stored.items)

\* loadLastViewedCity: the value it returns ...
loadLastViewedCity(st) ==
    LET stored == st[LAST_CITY_KEY] IN
    IF GetItemThrows(stored) THEN NoCity                \* caught
    ELSE IF ~Truthy(stored) THEN NoCity
    ELSE IF stored.kind = "garbage" THEN NoCity        \* JSON.parse throws
    ELSE IF stored.t = "value" /\ isValidFavoriteCity(stored.obj) THEN AsCity(stored.obj)
    ELSE NoCity

\* ... and the storage it leaves behind (an invalid record is removed)
ClearInvalidLastCity(st) ==
    LET stored == st[LAST_CITY_KEY] IN
    IF Truthy(stored) /\ stored.kind = "json"
       /\ ~(stored.t = "value" /\ isValidFavoriteCity(stored.obj))
    THEN [st EXCEPT ![LAST_CITY_KEY] = Absent]
    ELSE st

\* localStorage.setItem inside try/catch: a throw is caught and logged
SetItem(st, key, value) == IF GetItemThrows(st[key]) THEN st ELSE [st EXCEPT ![key] = value]

\* SaveFavorites, were the list not written to storage when it changes
SaveFavoritesNever(st, favs) == st

\* the effect of useEffect(..., [favorites])
SaveFavorites(st, favs) == SetItem(st, STORAGE_KEY, StringifyFavorites(favs))

HasKey(favs, k) == \E i \in 1..Len(favs) : favs[i].locationKey = k
CountKey(favs, k) == Cardinality({i \in 1..Len(favs) : favs[i].locationKey = k})

RECURSIVE RemoveKey(_, _)
RemoveKey(favs, k) ==
    IF favs = <<>> THEN <<>>
    ELSE IF Head(favs).locationKey # k
         THEN <<Head(favs)>> \o RemoveKey(Tail(favs), k)
         ELSE RemoveKey(Tail(favs), k)

\* AddUpdater, were it to store the later name over the earlier one
AddUpdaterOverwrite(prev, locationKey, name) ==
    IF HasKey(prev, locationKey)
    THEN [i \in 1..Len(prev) |->
             IF prev[i].locationKey = locationKey
             THEN [locationKey |-> locationKey, defaultName |-> name]
             ELSE prev[i]]
    ELSE Append(prev, [locationKey |-> locationKey, defaultName |-> name])

\* AddUpdater, were it to put the new entry first
AddUpdaterPrepend(prev, locationKey, name) ==
    IF HasKey(prev, locationKey) THEN prev
    ELSE <<[locationKey |-> locationKey, defaultName |-> name]>> \o prev

\* the updater addFavorite hands to setFavorites
AddUpdater(prev, locationKey, name) ==
    IF HasKey(prev, locationKey) THEN prev
    ELSE Append(prev, [locationKey |-> locationKey, defaultName |-> name])

\* the updater removeFavorite hands to setFavorites
RemoveUpdater(prev, locationKey) == RemoveKey(prev, locationKey)

\* ---- inputs ----
LocationKeys == {"", "328328", "178087"}
Names == {"", "London", "Londres"}
StoredItems ==
    {CityItem("328328", "London"), CityItem("328328", "Londres"), CityItem("", ""),
     CityItem("178087", "London"), LegacyItem, NoNameItem, NumKeyItem, NullItem}
RECURSIVE SeqsUpTo(_, _)
SeqsUpTo(S, n) ==
    IF n = 0 THEN {<<>>}
    ELSE LET shorter == SeqsUpTo(S, n - 1) IN
         shorter \cup {Append(s, x) : s \in {q \in shorter : Len(q) = n - 1}, x \in S}
StoredFavorites ==
    {Absent, EmptyText, Garbage, JsonValue(CityItem("328328", "London"))}
    \cup {JsonArray(items) : items \in SeqsUpTo(StoredItems, MaxStored)}
StoredLastCity ==
    {Absent, Garbage, JsonValue(CityItem("328328", "London")), JsonValue(CityItem("", "")),
     JsonValue(NoNameItem), JsonArray(<<>>)}
StoredLegacy == {Absent, EmptyText, Garbage}

NoneAdded == [k \in LocationKeys |-> None]

NoOp == [op |-> "none", key |-> None, name |-> None]
Op(op, key, name) == [op |-> op, key |-> key, name |-> name]
MkStorage(f, l, o, ol) ==
    [k \in StorageKeys |->
        IF k = STORAGE_KEY THEN f
        ELSE IF k = LAST_CITY_KEY THEN l
        ELSE IF k = OLD_STORAGE_KEY THEN o
        ELSE ol]
NotLoaded == MkStorage(Absent, Absent, Absent, Absent)

\* ========================================================================
\* Forecast post-processing (useWeatherByCity)
\* ========================================================================
ForecastDays == 5
HourMs == 60 * 60 * 1000
DayMs == 24 * 60 * 60 * 1000

\* An ISO-8601 timestamp text: the wall-clock time it spells (ms) and the UTC
\* offset it carries (ms); "...Z" is offset 0.
IsoDate(local, off) == [local |-> local, off |-> off]
\* new Date(text).getTime(): the instant
GetTime(date) == date.local - date.off
\* ToISOString, were the day the loop adds lost
ToISOStringSameDay(ms) == IsoDate(ms - DayMs, 0)

\* new Date(ms).toISOString(): always spelled in UTC
ToISOString(ms) == IsoDate(ms, 0)

\* a DailyForecast: its Date and the rest of its fields
DailyForecast(date, icon) ==
    [Date |-> date, EpochDate |-> GetTime(date) \div 1000, Icon |-> icon]

\* forecastQuery.data: undefined, or a response with DailyForecasts
NoData == [has |-> FALSE, DailyForecasts |-> <<>>]
ForecastResponse(days) == [has |-> TRUE, DailyForecasts |-> days]

\* Slice1, were today's entry kept
Slice0(days) == days

\* Array.prototype.slice(1)
Slice1(days) == IF days = <<>> THEN <<>> ELSE Tail(days)

\* the while loop: duplicate the last day, one day (24 h) later
RECURSIVE PadForecast(_)
PadForecast(processed) ==
    IF Len(processed) < ForecastDays /\ Len(processed) > 0
    THEN LET lastDay == processed[Len(processed)]
             nextDay == [lastDay EXCEPT !.Date = ToISOString(GetTime(lastDay.Date) + DayMs)]
         IN PadForecast(Append(processed, nextDay))
    ELSE processed

ProcessForecast(data) ==
    IF data.has THEN PadForecast(Slice1(data.DailyForecasts)) ELSE <<>>

\* ---- inputs: what the provider returns ----
MaxRawDays == 6
Offsets == {0 - 5 * HourMs, 0, 8 * HourMs}
Icons == {1, 7}
\* n consecutive days at 07:00 local time, the first on day 1
RawForecast(n, off, icons) ==
    [i \in 1..n |-> DailyForecast(IsoDate(i * DayMs + 7 * HourMs, off), icons[i])]
RawForecasts ==
    {NoData} \cup
    UNION {{ForecastResponse(RawForecast(n, off, icons)) : off \in Offsets, icons \in [1..n -> Icons]}
           : n \in 0..MaxRawDays}

\* ========================================================================
\* City-resolution pipeline
\* ========================================================================
\* ---- provider client (services/weatherService) ----
Null == "<null>"
languageMap == [en |-> "en-us", ru |-> "ru", he |-> "he"]

\* i18nLang.split('-')[0].toLowerCase()
BaseLang(i18nLang) ==
    CASE i18nLang = "en-US" -> "en"
      [] i18nLang = "en" -> "en"
      [] i18nLang = "ru" -> "ru"
      [] i18nLang = "he" -> "he"
      [] OTHER -> "fr"

getApiLanguage(i18nLang) ==
    LET baseLang == BaseLang(i18nLang) IN
    IF baseLang \in DOMAIN languageMap THEN languageMap[baseLang] ELSE "en-us"

\* String.prototype.trim on the city names of the model
Trim(text) == IF text \in {"", " "} THEN "" ELSE text

\* what a service function returns (ok) or throws (~ok), and whether it sent
\* an HTTP request on the way
Ok(value) == [ok |-> TRUE, value |-> value, error |-> None, sent |-> TRUE]
Err(undef, message) == [ok |-> FALSE, value |-> undef, error |-> message, sent |-> TRUE]
Invalid(undef, message) == [ok |-> FALSE, value |-> undef, error |-> message, sent |-> FALSE]
\* what axios.get returns (ok) or throws (~ok)
HttpOk(body) == [ok |-> TRUE, body |-> body]
HttpFail(empty) == [ok |-> FALSE, body |-> empty]
\* !text
Falsy(text) == text \in {"", Null}

\* the undefined data of each query
NoLocation == [Key |-> None, LocalizedName |-> None]
NoWeather == [has |-> FALSE, arr |-> <<>>]
WeatherData(arr) == [has |-> TRUE, arr |-> arr]
NullWeather == [WeatherText |-> None]

\* fetchLocationKey, were an empty list of matches an error
fetchLocationKeyOrThrow(cityName, http) ==
    IF Falsy(cityName) \/ Trim(cityName) = "" THEN Invalid(None, "City name is required")
    ELSE IF http.ok /\ http.body # <<>>
         THEN Ok(http.body[1].Key)
         ELSE Err(None, "Error loading location key")

fetchLocationKey(cityName, http) ==
    IF Falsy(cityName) \/ Trim(cityName) = "" THEN Invalid(None, "City name is required")
    ELSE IF http.ok
         THEN Ok(IF http.body = <<>> THEN Null ELSE http.body[1].Key)
         ELSE Err(None, "Error loading location key")

fetchLocationByKey(locationKey, http) ==
    IF Falsy(locationKey) THEN Invalid(NoLocation, "Location key is required")
    ELSE IF http.ok THEN Ok(http.body)
         ELSE Err(NoLocation, "Error getting location by key")

\* fetchWeather, were the key not checked before the request
fetchWeatherUnchecked(locationKey, http) ==
    IF http.ok THEN Ok(WeatherData(http.body))
    ELSE Err(NoWeather, "Error loading weather data")

fetchWeather(locationKey, http) ==
    IF Falsy(locationKey) THEN Invalid(NoWeather, "Invalid locationKey")
    ELSE IF http.ok THEN Ok(WeatherData(http.body))
         ELSE Err(NoWeather, "Error loading weather data")

fetchForecast(locationKey, http) ==
    IF Falsy(locationKey) THEN Invalid(NoData, "Invalid locationKey")
    ELSE IF http.ok THEN Ok(ForecastResponse(http.body))
         ELSE Err(NoData, "Error loading forecast data")

\* ---- the query cache (QueryClient of App.tsx) ----
Retry == 2

IdleQuery(undef) ==
    [status |-> "pending", fetchStatus |-> "idle", data |-> undef, error |-> None,
     failureCount |-> 0]

\* a fetch begins
FetchStart(q, undef) ==
    IF q.data = undef
    THEN [q EXCEPT !.fetchStatus = "fetching", !.failureCount = 0,
                   !.status = "pending", !.error = None]
    ELSE [q EXCEPT !.fetchStatus = "fetching", !.failureCount = 0]

\* Settle, were a failed request attempted again without end
SettleRetryForever(q, result) ==
    IF result.ok
    THEN [status |-> "success", fetchStatus |-> "idle", data |-> result.value,
          error |-> None, failureCount |-> 0]
    ELSE [q EXCEPT !.failureCount = (@ + 1) % (Retry + 1)]

\* queryFn has returned or thrown: success, another attempt (retry: 2), or error
Settle(q, result) ==
    IF result.ok
    THEN [status |-> "success", fetchStatus |-> "idle", data |-> result.value,
          error |-> None, failureCount |-> 0]
    ELSE IF q.failureCount < Retry
         THEN [q EXCEPT !.failureCount = @ + 1]
         ELSE [q EXCEPT !.status = "error", !.fetchStatus = "idle",
                        !.error = result.error, !.failureCount = @ + 1]

\* Subscribe, were cached data never fresh (staleTime: 0)
SubscribeStale(q, undef, enabled) ==
    IF enabled /\ q.fetchStatus = "idle" THEN FetchStart(q, undef) ELSE q

\* an observer turns to query q: it fetches when enabled, idle and without
\* data (a run is shorter than staleTime: data in the cache is fresh)
Subscribe(q, undef, enabled) ==
    IF enabled /\ q.fetchStatus = "idle" /\ q.data = undef THEN FetchStart(q, undef) ELSE q

\* query.refetch(): runs whether enabled or not; a fetch in flight is restarted
\* when there is data (cancelRefetch) and joined when there is none
RefetchQuery(q, undef) ==
    IF q.fetchStatus = "fetching" /\ q.data = undef THEN q ELSE FetchStart(q, undef)

QIsLoading(q) == q.fetchStatus = "fetching" /\ q.status = "pending"
QIsError(q) == q.status = "error"

\* ---- the hooks (hooks/useWeather.ts) ----
\* enabled: !!city?.trim()
LocationEnabled(cityName) == Trim(cityName) # ""
\* KeyQueryEnabled, were the three dependent queries never enabled
KeyQueryNeverEnabled(locationKey) == FALSE

\* KeyQueryEnabled, were the three dependent queries always enabled
KeyQueryAlwaysEnabled(locationKey) == TRUE

\* enabled: !!locationKey
KeyQueryEnabled(locationKey) == locationKey \notin {Null, ""}
\* locationQuery.data || null
LocationKeyOf(data) == IF data \in {None, Null, ""} THEN Null ELSE data
\* locationKey || ''
KeyArg(locationKey) == IF locationKey = Null THEN "" ELSE locationKey

\* HookIsLoading, were the join to wait for the search alone
HookIsLoadingSearchOnly(lq, iq, wq, fq) == QIsLoading(lq)

HookIsLoading(lq, iq, wq, fq) ==
    QIsLoading(lq) \/ QIsLoading(iq) \/ QIsLoading(wq) \/ QIsLoading(fq)

\* HookIsError, were the forecast query's failure left out
HookIsErrorNoForecast(lq, wq, fq) == QIsError(lq) \/ QIsError(wq)

HookIsError(lq, wq, fq) == QIsError(lq) \/ QIsError(wq) \/ QIsError(fq)

\* HookError, were the forecast's error to come before the conditions'
HookErrorForecastFirst(lq, wq, fq) ==
    IF lq.error # None THEN lq.error
    ELSE IF fq.error # None THEN fq.error
    ELSE wq.error

\* locationQuery.error || weatherQuery.error || forecastQuery.error
HookError(lq, wq, fq) ==
    IF lq.error # None THEN lq.error
    ELSE IF wq.error # None THEN wq.error
    ELSE fq.error

\* the ids of the four queries the hook observes for input (cityName, i18nLang)
ObservedLoc(cityName, i18nLang) == <<cityName, getApiLanguage(i18nLang)>>
\* ObservedKey, were the language left out of the three dependent query keys
ObservedKeyNoLang(cache, cityName, i18nLang) ==
    <<KeyArg(LocationKeyOf(cache[ObservedLoc(cityName, i18nLang)].data)), "en-us">>

ObservedKey(cache, cityName, i18nLang) ==
    <<KeyArg(LocationKeyOf(cache[ObservedLoc(cityName, i18nLang)].data)),
      getApiLanguage(i18nLang)>>

useWeatherByCity ==
    LET locationQuery == locQ[ObservedLoc(searchCity, lang)]
        locationKey == LocationKeyOf(locationQuery.data)
        keyId == ObservedKey(locQ, searchCity, lang)
        locationInfoQuery == infoQ[keyId]
        weatherQuery == curQ[keyId]
        forecastQuery == fcQ[keyId]
    IN [weather |-> IF weatherQuery.data.has /\ weatherQuery.data.arr # <<>>
                    THEN weatherQuery.data.arr[1] ELSE NullWeather,
        forecast |-> ProcessForecast(forecastQuery.data),
        locationKey |-> locationKey,
        localizedCityName |-> IF locationInfoQuery.data.LocalizedName \in {None, ""}
                              THEN Null ELSE locationInfoQuery.data.LocalizedName,
        isLoading |-> HookIsLoading(locationQuery, locationInfoQuery, weatherQuery, forecastQuery),
        isError |-> HookIsError(locationQuery, weatherQuery, forecastQuery),
        error |-> HookError(locationQuery, weatherQuery, forecastQuery)]

\* what HomePage shows from the hook's result (HomePage.tsx, lines 58-70, 138-217)
HomePage ==
    LET r == useWeatherByCity IN
    [main |-> IF r.isLoading THEN "skeleton"
              ELSE IF r.isError THEN "error"
              ELSE IF r.weather # NullWeather THEN "current-weather"
              ELSE "welcome-message",
     message |-> IF ~r.isLoading /\ r.isError THEN r.error ELSE None,
     \* the two toast effects (lines 58-70)
     toast |-> IF r.isError /\ r.error # None THEN r.error
               ELSE IF searchCity # "" /\ ~r.isLoading /\ r.weather = NullWeather /\ ~r.isError
                    THEN "City not found"
                    ELSE None,
     forecast |-> IF r.forecast # <<>> THEN r.forecast ELSE <<>>]

\* ---- inputs: the cities searched, the UI languages, the provider's answers ----
Cities == {"London", "Zzzznotacity"}
CityArgs == Cities \cup {""}
I18nLangs == {"en-US", "ru"}
ApiLangs == {getApiLanguage(l) : l \in I18nLangs}
Keys == {"328328"}
KeyArgs == Keys \cup {""}
LocIds == CityArgs \X ApiLangs
KeyIds == KeyArgs \X ApiLangs

LocalizedNameOf(key, apiLang) ==
    IF key = "178087" THEN (IF apiLang = "ru" THEN "Parizh" ELSE "Paris")
    ELSE IF apiLang = "ru" THEN "Londres" ELSE "London"
\* the body of /locations/v1/cities/search
SearchBody(cityName, apiLang) ==
    IF cityName = "London"
    THEN <<[Key |-> "328328", LocalizedName |-> LocalizedNameOf("328328", apiLang)]>>
    ELSE <<>>
\* the body of /locations/v1/{locationKey}
LocationBody(key, apiLang) == [Key |-> key, LocalizedName |-> LocalizedNameOf(key, apiLang)]
\* the body of /currentconditions/v1/{locationKey}?language=
WeatherBody(key, apiLang) == <<[WeatherText |-> IF apiLang = "ru" THEN "Solnechno" ELSE "Sunny"]>>
\* the body of /forecasts/v1/daily/5day/{locationKey}?language=: the icon
\* stands for the localized day of the forecast
ForecastBody(key, apiLang) == RawForecast(5, 0, [i \in 1..5 |-> IF apiLang = "ru" THEN 2 ELSE 1])
WeatherBodies == {WeatherBody(k, l) : k \in Keys, l \in ApiLangs}
ForecastBodies == {ForecastBody(k, l) : k \in Keys, l \in ApiLangs}

\* ---- inputs of the provider-client calls ----
ServiceCities == {"", " ", "London", "Zzzznotacity"}
ServiceKeys == {"", Null, "328328"}
Matches == {[Key |-> "328328", LocalizedName |-> "London"],
            [Key |-> "178087", LocalizedName |-> "London"]}
MaxMatches == 2
ServiceFunctions == {"fetchLocationKey", "fetchLocationByKey", "fetchWeather", "fetchForecast"}
\* <<argument, axios' answer>> for each function
ServiceInputs(fn) ==
    CASE fn = "fetchLocationKey" ->
            {<<c, h>> : c \in ServiceCities,
                        h \in {HttpFail(<<>>)}
                              \cup {HttpOk(body) : body \in SeqsUpTo(Matches, MaxMatches)}}
      [] fn = "fetchLocationByKey" ->
            {<<k, h>> : k \in ServiceKeys,
                        h \in {HttpFail(NoLocation), HttpOk(LocationBody("328328", "en-us")),
                               HttpOk(LocationBody("328328", "ru"))}}
      [] fn = "fetchWeather" ->
            {<<k, h>> : k \in ServiceKeys,
                        h \in {HttpFail(<<>>)} \cup {HttpOk(body) : body \in WeatherBodies}}
      [] OTHER ->
            {<<k, h>> : k \in ServiceKeys,
                        h \in {HttpFail(<<>>)} \cup {HttpOk(body) : body \in ForecastBodies}}
NoResult == [ok |-> FALSE, value |-> None, error |-> None, sent |-> FALSE]
NoCall ==
    [pc |-> "idle", via |-> None, fn |-> None, arg |-> None, http |-> HttpFail(<<>>),
     invoked |-> FALSE, result |-> NoResult]
NewCall(via, fn, in) ==
    [pc |-> "ready", via |-> via, fn |-> fn, arg |-> in[1], http |-> in[2],
     invoked |-> FALSE, result |-> NoResult]
\* the service function applied
Apply(fn, arg, http) ==
    CASE fn = "fetchLocationKey" -> fetchLocationKey(arg, http)
      [] fn = "fetchLocationByKey" -> fetchLocationByKey(arg, http)
      [] fn = "fetchWeather" -> fetchWeather(arg, http)
      [] OTHER -> fetchForecast(arg, http)
\* the enabled option of the hook that wraps the function
HookEnabled(fn, arg) ==
    IF fn = "fetchLocationKey" THEN LocationEnabled(arg) ELSE KeyQueryEnabled(arg)

\* ========================================================================
\* The favourites' localized names (useFavoriteLocations)
\* ========================================================================
MaxFavLocs == 3       \* longest favorites list handed to useFavoriteLocations

NoLocationResult == [locationKey |-> None, localizedName |-> None, defaultName |-> None]

\* LookupResult, were a failed lookup mapped to a null name
LookupResultNull(fav, result) ==
    [locationKey |-> fav.locationKey,
     localizedName |-> IF result.ok THEN result.value.LocalizedName ELSE Null,
     defaultName |-> fav.defaultName]

\* one element of favorites.map(async (fav) => { try ... catch ... })
LookupResult(fav, result) ==
    [locationKey |-> fav.locationKey,
     localizedName |-> IF result.ok THEN result.value.LocalizedName ELSE fav.defaultName,
     defaultName |-> fav.defaultName]

\* one lookup: not started, awaiting fetchLocationByKey, or fulfilled
NoTask == [state |-> "none", failed |-> FALSE, result |-> NoLocationResult]
RunningTask == [state |-> "running", failed |-> FALSE, result |-> NoLocationResult]
FulfilledTask(fav, result) ==
    [state |-> "fulfilled", failed |-> ~result.ok, result |-> LookupResult(fav, result)]

\* query.data: undefined, or the results of Promise.all
NoLocations == [has |-> FALSE, results |-> <<>>]
Locations(results) == [has |-> TRUE, results |-> results]

\* enabled: favorites.length > 0
FavoriteLocationsEnabled(favs) == Len(favs) > 0

\* what the hook returns
useFavoriteLocations ==
    [locations |-> IF favLocs.query.data.has THEN favLocs.query.data.results ELSE <<>>,
     isLoading |-> QIsLoading(favLocs.query),
     isError |-> QIsError(favLocs.query)]

\* ---- inputs ----
FavoriteCities ==
    {[locationKey |-> "328328", defaultName |-> "London"],
     [locationKey |-> "178087", defaultName |-> "Paris"],
     [locationKey |-> "", defaultName |-> "Nowhere"]}
FavoriteLists == SeqsUpTo(FavoriteCities, MaxFavLocs)

FavLocsFor(favs, i18nLang) ==
    [pc |-> "unmounted", favorites |-> favs, lang |-> i18nLang, tasks |-> <<>>,
     query |-> IdleQuery(NoLocations)]

\* ========================================================================
\* TemperatureProvider (contexts/TemperatureContext.tsx)
\* ========================================================================
\* A temperature is a whole number of fiftieths of a degree: the provider's
\* Celsius values have one decimal, and their Fahrenheit values are then exact.
Scale == 50
Degrees(n) == n * Scale
Tenths(n) == n * (Scale \div 10)

\* convertTemp, were the offset of the Fahrenheit scale left out
convertTempNoOffset(isCelsius, celsius) ==
    IF isCelsius THEN celsius ELSE (celsius * 9) \div 5

\* convertTemp of the provider whose state is isCelsius
convertTemp(isCelsius, celsius) ==
    IF isCelsius THEN celsius ELSE (celsius * 9) \div 5 + Degrees(32)

\* Math.round: to the nearest whole degree, a half upwards
MathRound(x) == (2 * x + Scale) \div (2 * Scale)

\* what a page displays for a Celsius value, and UnitToggle's label
Displayed(isCelsius, celsius) == MathRound(convertTemp(isCelsius, celsius))
UnitLabel(isCelsius) == IF isCelsius THEN "C" ELSE "F"

\* ---- inputs: the Celsius values the provider reports ----
MaxDegrees == 20
CelsiusValues == {Degrees(d) + Tenths(t) : d \in (0 - MaxDegrees)..MaxDegrees, t \in {0, 3, 5}}

\* odd is history: toggleUnit has run an odd number of times
TemperatureFor(celsius) ==
    [isCelsius |-> TRUE, celsius |-> celsius, odd |-> FALSE, before |-> <<>>]

\* ========================================================================
\* ThemeProvider (contexts/ThemeContext)
\* ========================================================================
\* (saved as Theme) || 'light'
InitialTheme(saved) == IF saved \in {None, ""} THEN "light" ELSE saved

\* ToggledTheme, were every theme but dark to become dark
ToggledThemeFromDark(prev) == IF prev = "dark" THEN "light" ELSE "dark"

\* the updater toggleTheme hands to setTheme
ToggledTheme(prev) == IF prev = "light" THEN "dark" ELSE "light"

\* ---- inputs: what localStorage holds under 'theme' ----
StoredThemes == {None, "", "light", "dark", "blue"}

ThemeFor(saved) == [pc |-> "unmounted", stored |-> saved, theme |-> None, before |-> <<>>]

\* ========================================================================
\* ErrorBoundary (components/ErrorBoundary.tsx)
\* ========================================================================
MaxCrashes == 3       \* errors caught by the boundary in one run

\* this.state = { hasError: false, error: null }
InitialBoundaryState == [hasError |-> FALSE, error |-> None]

\* getDerivedStateFromError, were the flag not set
getDerivedStateFromErrorNoFlag(error) == [hasError |-> FALSE, error |-> error]

getDerivedStateFromError(error) == [hasError |-> TRUE, error |-> error]

\* the state handleReset sets
ResetState == [hasError |-> FALSE, error |-> None]

\* what render() returns
BoundaryRender(state) == IF state.hasError THEN "fallback" ELSE "children"

\* ---- inputs: what a child throws while rendering ----
RenderErrors ==
    {"Cannot read properties of undefined",
     "useFavorites must be used within a FavoritesProvider",
     "useTemperature must be used within a TemperatureProvider"}

\* pc: "rendering" while React renders what render() returned, then what is
\* on the screen; child: what the child throws when it renders, if anything
BoundaryFor(child, customFallback) ==
    [state |-> InitialBoundaryState, pc |-> "rendering", child |-> child,
     customFallback |-> customFallback, caught |-> <<>>, last |-> "constructor"]

\* ========================================================================
\* useGeolocation (hooks/useGeolocation)
\* ========================================================================
MaxRequests == 3      \* calls of getCurrentPosition in one run

NotSupported == "Geolocation is not supported by your browser"
\* the switch over err.code; 1, 2, 3 are PERMISSION_DENIED, POSITION_UNAVAILABLE, TIMEOUT
ErrorMessage(code) ==
    CASE code = 1 -> "Location access denied by user"
      [] code = 2 -> "Location information unavailable"
      [] code = 3 -> "Location request timed out"
      [] OTHER -> "An unknown error occurred"

\* ---- inputs ----
NoPosition == [latitude |-> None, longitude |-> None]
Positions == {[latitude |-> "51.5", longitude |-> "-0.1"], [latitude |-> "48.9", longitude |-> "2.4"]}
ErrorCodes == {0, 1, 2, 3}

NoOutcome == [kind |-> "none", position |-> NoPosition, message |-> None]
\* outstanding: the requests whose callbacks the browser has yet to call;
\* latest: history, the last callback the browser called
GeoFor(supported) ==
    [supported |-> supported, position |-> NoPosition, error |-> None, isLoading |-> FALSE,
     outstanding |-> 0, requests |-> 0, latest |-> NoOutcome]

Ui(fl, t, th, b, g) == [favLocs |-> fl, temperature |-> t, themeCtx |-> th, boundary |-> b, geo |-> g]
\* nothing beside the pipeline is mounted
IdleUi ==
    Ui(FavLocsFor(<<>>, "en-US"), TemperatureFor(0), ThemeFor(None), BoundaryFor(None, FALSE),
       GeoFor(TRUE))
UiIdle == ui = IdleUi

\* ========================================================================
\* Specifications
\* ========================================================================
ForecastIdle ==
    /\ fcRaw = NoData
    /\ fcOut = <<>>
    /\ fcPc = "done"

FavoritesIdle ==
    /\ storage = MkStorage(Absent, Absent, Absent, Absent)
    /\ favorites = <<>>
    /\ lastViewedCity = NoCity
    /\ favPc = "unmounted"
    /\ added = NoneAdded
    /\ lastOp = NoOp
    /\ prevFavorites = <<>>
    /\ prevLast = NoCity
    /\ rewroteLastCity = FALSE
    /\ loadedFrom = NotLoaded

ServiceIdle == call = NoCall

PipelineIdle ==
    /\ homePc = "unmounted"
    /\ searchCity = ""
    /\ lang = "en-US"
    /\ locQ = [id \in LocIds |-> IdleQuery(None)]
    /\ infoQ = [id \in KeyIds |-> IdleQuery(NoLocation)]
    /\ curQ = [id \in KeyIds |-> IdleQuery(NoWeather)]
    /\ fcQ = [id \in KeyIds |-> IdleQuery(NoData)]
    /\ nSteps = 0
    /\ failOrder = <<>>
    /\ started = {}

\* ---- the Favorites Store ----
InitFavorites ==
    /\ storage \in {MkStorage(f, l, o, ol) : f \in StoredFavorites, l \in StoredLastCity,
                                             o \in StoredLegacy, ol \in StoredLegacy}
                    \cup {MkStorage(Throws, Throws, Throws, Throws)}
    /\ favorites = <<>>
    /\ lastViewedCity = NoCity
    /\ favPc = "unmounted"
    /\ added = NoneAdded
    /\ lastOp = NoOp
    /\ prevFavorites = <<>>
    /\ prevLast = NoCity
    /\ rewroteLastCity = FALSE
    /\ loadedFrom = NotLoaded
    /\ ForecastIdle
    /\ PipelineIdle
    /\ ServiceIdle
    /\ UiIdle

\* FavoritesProvider's first render (the two useState initialisers) and the
\* first run of the save effect
Mount ==
    /\ favPc = "unmounted"
    /\ LET st1 == ClearOldFormat(storage)
           favs == loadFavoritesFromStorage(st1)
           last == loadLastViewedCity(st1)
           st2 == ClearInvalidLastCity(st1)
       IN /\ favorites' = favs
          /\ lastViewedCity' = last
          /\ storage' = SaveFavorites(st2, favs)
    /\ favPc' = "mounted"
    /\ lastOp' = Op("mount", None, None)
    /\ loadedFrom' = storage
    /\ UNCHANGED <<added, prevFavorites, prevLast, rewroteLastCity, fcVars, pipeVars, svcVars,
                   uiVars>>

addFavorite(locationKey, name) ==
    /\ favPc = "mounted"
    /\ IF locationKey = "" \/ name = ""
       THEN UNCHANGED <<favorites, storage, added>>
       ELSE LET next == AddUpdater(favorites, locationKey, name) IN
            /\ Len(next) <= MaxFavorites
            /\ favorites' = next
            \* the effect runs only when the state changed
            /\ storage' = IF next = favorites THEN storage ELSE SaveFavorites(storage, next)
            /\ added' = IF HasKey(favorites, locationKey) THEN added
                        ELSE [added EXCEPT ![locationKey] = name]
    /\ lastOp' = Op("addFavorite", locationKey, name)
    /\ prevFavorites' = favorites
    /\ prevLast' = lastViewedCity
    /\ loadedFrom' = NotLoaded
    /\ rewroteLastCity' = FALSE
    /\ UNCHANGED <<lastViewedCity, favPc, fcVars, pipeVars, svcVars, uiVars>>

removeFavorite(locationKey) ==
    /\ favPc = "mounted"
    /\ IF locationKey = ""
       THEN UNCHANGED <<favorites, storage, added>>
       ELSE LET next == RemoveUpdater(favorites, locationKey) IN
            /\ favorites' = next
            /\ storage' = SaveFavorites(storage, next)
            /\ added' = [added EXCEPT ![locationKey] = None]
    /\ lastOp' = Op("removeFavorite", locationKey, None)
    /\ prevFavorites' = favorites
    /\ prevLast' = lastViewedCity
    /\ loadedFrom' = NotLoaded
    /\ rewroteLastCity' = FALSE
    /\ UNCHANGED <<lastViewedCity, favPc, fcVars, pipeVars, svcVars, uiVars>>

setLastViewedCity(locationKey, name) ==
    /\ favPc = "mounted"
    /\ IF locationKey = "" \/ name = ""
       THEN UNCHANGED <<lastViewedCity, storage>>
       ELSE LET city == [locationKey |-> locationKey, defaultName |-> name] IN
            /\ lastViewedCity' = city
            /\ storage' = SetItem(storage, LAST_CITY_KEY, StringifyCity(city))
    /\ lastOp' = Op("setLastViewedCity", locationKey, name)
    /\ rewroteLastCity' = /\ locationKey # "" /\ name # ""
                           /\ lastOp.op = "setLastViewedCity"
                           /\ lastOp.key = locationKey /\ lastOp.name # ""
    /\ prevFavorites' = favorites
    /\ prevLast' = lastViewedCity
    /\ loadedFrom' = NotLoaded
    /\ UNCHANGED <<favorites, favPc, added, fcVars, pipeVars, svcVars, uiVars>>

NextFavorites ==
    \/ Mount
    \/ \E k \in LocationKeys, n \in Names : addFavorite(k, n)
    \/ \E k \in LocationKeys : removeFavorite(k)
    \/ \E k \in LocationKeys, n \in Names : setLastViewedCity(k, n)

SpecFavorites == InitFavorites /\ [][NextFavorites]_vars

\* ---- forecast post-processing ----
InitForecast ==
    /\ fcRaw \in RawForecasts
    /\ fcOut = <<>>
    /\ fcPc = "raw"
    /\ FavoritesIdle
    /\ PipelineIdle
    /\ ServiceIdle
    /\ UiIdle

\* the hook renders with the forecast query's data
RenderForecast ==
    /\ fcPc = "raw"
    /\ fcOut' = ProcessForecast(fcRaw)
    /\ fcPc' = "done"
    /\ UNCHANGED <<fcRaw, favVars, pipeVars, svcVars, uiVars>>

\* the forecast query delivers another response
NewForecastData ==
    /\ fcPc = "done"
    /\ fcRaw' \in RawForecasts
    /\ fcRaw' # fcRaw
    /\ fcPc' = "raw"
    /\ UNCHANGED <<fcOut, favVars, pipeVars, svcVars, uiVars>>

NextForecast == RenderForecast \/ NewForecastData

SpecForecast == InitForecast /\ [][NextForecast]_vars

\* ---- the city-resolution pipeline ----
InitPipeline ==
    /\ PipelineIdle
    /\ FavoritesIdle
    /\ ForecastIdle
    /\ ServiceIdle
    /\ UiIdle

\* the observers of the three dependent queries turn to the key the (new)
\* location cache gives for the (new) input, when that is another query
KeysAfter(cache, undef, loc1, c1, l1) ==
    LET oldId == ObservedKey(locQ, searchCity, lang)
        newId == ObservedKey(loc1, c1, l1)
        locationKey == LocationKeyOf(loc1[ObservedLoc(c1, l1)].data)
    IN IF newId = oldId THEN cache
       ELSE [cache EXCEPT ![newId] = Subscribe(@, undef, KeyQueryEnabled(locationKey))]

QueryKinds == {"location", "locationByKey", "current", "forecast"}

\* the query of one kind that the hook observes for the input (c1, l1)
ObservedQuery(kind, loc1, info1, cur1, fc1, c1, l1) ==
    LET keyId == ObservedKey(loc1, c1, l1) IN
    CASE kind = "location" -> loc1[ObservedLoc(c1, l1)]
      [] kind = "locationByKey" -> [info1[keyId] EXCEPT !.data = None]
      [] kind = "current" -> [cur1[keyId] EXCEPT !.data = None]
      [] OTHER -> [fc1[keyId] EXCEPT !.data = None]
SeqRange(s) == {s[i] : i \in 1..Len(s)}

\* history: the kinds of observed query that failed since the input last
\* changed and are still in the error state, in the order in which they failed
NextFailOrder(loc1, info1, cur1, fc1, c1, l1, inputChanged) ==
    LET failed(kind) == ObservedQuery(kind, loc1, info1, cur1, fc1, c1, l1).status = "error"
        failedBefore(kind) ==
            ObservedQuery(kind, locQ, infoQ, curQ, fcQ, searchCity, lang).status = "error"
        kept == SelectSeq(IF inputChanged THEN <<>> ELSE failOrder, failed)
        fresh == {kind \in QueryKinds : /\ failed(kind)
                                         /\ (inputChanged \/ ~failedBefore(kind))
                                         /\ kind \notin SeqRange(kept)}
    IN IF fresh = {} THEN kept ELSE Append(kept, CHOOSE kind \in fresh : TRUE)

\* history: the kinds of query a step started for the input (c1, l1)
StartedNow(loc1, info1, cur1, fc1, c1, l1) ==
    LET locId == ObservedLoc(c1, l1)
        keyId == ObservedKey(loc1, c1, l1)
        began(old, new) == old.fetchStatus = "idle" /\ new.fetchStatus = "fetching"
    IN {k \in {"location"} : began(locQ[locId], loc1[locId])}
       \cup {k \in {"locationByKey"} : began(infoQ[keyId], info1[keyId])}
       \cup {k \in {"current"} : began(curQ[keyId], cur1[keyId])}
       \cup {k \in {"forecast"} : began(fcQ[keyId], fc1[keyId])}

\* the pipeline's next state, but for homePc and nSteps
Pipe(c1, l1, loc1, info1, cur1, fc1, inputChanged) ==
    /\ searchCity' = c1
    /\ lang' = l1
    /\ locQ' = loc1
    /\ infoQ' = info1
    /\ curQ' = cur1
    /\ fcQ' = fc1
    /\ failOrder' = NextFailOrder(loc1, info1, cur1, fc1, c1, l1, inputChanged)
    /\ started' = (IF inputChanged THEN {} ELSE started)
                  \cup StartedNow(loc1, info1, cur1, fc1, c1, l1)

\* the input becomes (c1, l1): the location observer turns to its query, and
\* the dependent observers to theirs
SetInput(c1, l1) ==
    LET loc1 == [locQ EXCEPT ![ObservedLoc(c1, l1)] = Subscribe(@, None, LocationEnabled(c1))]
    IN Pipe(c1, l1, loc1,
            KeysAfter(infoQ, NoLocation, loc1, c1, l1),
            KeysAfter(curQ, NoWeather, loc1, c1, l1),
            KeysAfter(fcQ, NoData, loc1, c1, l1), TRUE)

\* HomePage mounts with searchCity = '': the four observers subscribe
MountHome ==
    /\ homePc = "unmounted"
    /\ homePc' = "mounted"
    /\ LET locId == ObservedLoc(searchCity, lang)
           keyId == ObservedKey(locQ, searchCity, lang)
           enabled == KeyQueryEnabled(LocationKeyOf(locQ[locId].data))
           loc1 == [locQ EXCEPT ![locId] = Subscribe(@, None, LocationEnabled(searchCity))]
       IN Pipe(searchCity, lang, loc1,
               [infoQ EXCEPT ![keyId] = Subscribe(@, NoLocation, enabled)],
               [curQ EXCEPT ![keyId] = Subscribe(@, NoWeather, enabled)],
               [fcQ EXCEPT ![keyId] = Subscribe(@, NoData, enabled)], TRUE)
    /\ UNCHANGED <<nSteps, favVars, fcVars, svcVars, uiVars>>

\* HomePage.handleSearch, or the ?city= parameter: setSearchCity
SearchWithin(c, maxSteps) ==
    /\ homePc = "mounted"
    /\ c # searchCity
    /\ nSteps < maxSteps
    /\ nSteps' = nSteps + 1
    /\ SetInput(c, lang)
    /\ UNCHANGED <<homePc, favVars, fcVars, svcVars, uiVars>>

\* i18n.changeLanguage
ChangeLanguageWithin(l, maxSteps) ==
    /\ homePc = "mounted"
    /\ l # lang
    /\ nSteps < maxSteps
    /\ nSteps' = nSteps + 1
    /\ SetInput(searchCity, l)
    /\ UNCHANGED <<homePc, favVars, fcVars, svcVars, uiVars>>

\* the refetch the hook returns: locationQuery.refetch()
RefetchWithin(maxSteps) ==
    /\ homePc = "mounted"
    /\ nSteps < maxSteps
    /\ nSteps' = nSteps + 1
    /\ LET loc1 == [locQ EXCEPT ![ObservedLoc(searchCity, lang)] = RefetchQuery(@, None)]
       IN Pipe(searchCity, lang, loc1,
               KeysAfter(infoQ, NoLocation, loc1, searchCity, lang),
               KeysAfter(curQ, NoWeather, loc1, searchCity, lang),
               KeysAfter(fcQ, NoData, loc1, searchCity, lang), FALSE)
    /\ UNCHANGED <<homePc, favVars, fcVars, svcVars, uiVars>>

\* an attempt of fetchLocationKey ends
LocationResponds(id, ok) ==
    /\ locQ[id].fetchStatus = "fetching"
    /\ LET http == IF ok THEN HttpOk(SearchBody(id[1], id[2])) ELSE HttpFail(<<>>)
           loc1 == [locQ EXCEPT ![id] = Settle(@, fetchLocationKey(id[1], http))]
       IN Pipe(searchCity, lang, loc1,
               KeysAfter(infoQ, NoLocation, loc1, searchCity, lang),
               KeysAfter(curQ, NoWeather, loc1, searchCity, lang),
               KeysAfter(fcQ, NoData, loc1, searchCity, lang), FALSE)
    /\ UNCHANGED <<homePc, nSteps, favVars, fcVars, svcVars, uiVars>>

\* an attempt of fetchLocationByKey ends
InfoResponds(id, ok) ==
    /\ infoQ[id].fetchStatus = "fetching"
    /\ LET http == IF ok THEN HttpOk(LocationBody(id[1], id[2])) ELSE HttpFail(NoLocation)
           info1 == [infoQ EXCEPT ![id] = Settle(@, fetchLocationByKey(id[1], http))]
       IN Pipe(searchCity, lang, locQ, info1, curQ, fcQ, FALSE)
    /\ UNCHANGED <<homePc, nSteps, favVars, fcVars, svcVars, uiVars>>

\* an attempt of fetchWeather ends
WeatherResponds(id, ok, body) ==
    /\ curQ[id].fetchStatus = "fetching"
    /\ LET http == IF ok THEN HttpOk(body) ELSE HttpFail(<<>>)
           cur1 == [curQ EXCEPT ![id] = Settle(@, fetchWeather(id[1], http))]
       IN Pipe(searchCity, lang, locQ, infoQ, cur1, fcQ, FALSE)
    /\ UNCHANGED <<homePc, nSteps, favVars, fcVars, svcVars, uiVars>>

\* an attempt of fetchForecast ends
ForecastResponds(id, ok, body) ==
    /\ fcQ[id].fetchStatus = "fetching"
    /\ LET http == IF ok THEN HttpOk(body) ELSE HttpFail(<<>>)
           fc1 == [fcQ EXCEPT ![id] = Settle(@, fetchForecast(id[1], http))]
       IN Pipe(searchCity, lang, locQ, infoQ, curQ, fc1, FALSE)
    /\ UNCHANGED <<homePc, nSteps, favVars, fcVars, svcVars, uiVars>>

Search(c) == SearchWithin(c, MaxUserSteps)
ChangeLanguage(l) == ChangeLanguageWithin(l, MaxUserSteps)
Refetch == RefetchWithin(MaxUserSteps)

NextPipeline ==
    \/ MountHome
    \/ \E c \in Cities : Search(c)
    \/ \E l \in I18nLangs : ChangeLanguage(l)
    \/ Refetch
    \/ \E id \in LocIds, ok \in BOOLEAN : LocationResponds(id, ok)
    \/ \E id \in KeyIds, ok \in BOOLEAN : InfoResponds(id, ok)
    \/ \E id \in KeyIds, ok \in BOOLEAN : WeatherResponds(id, ok, WeatherBody(id[1], id[2]))
    \/ \E id \in KeyIds, ok \in BOOLEAN : ForecastResponds(id, ok, ForecastBody(id[1], id[2]))

SpecPipeline == InitPipeline /\ [][NextPipeline]_vars

\* ---- the pipeline when every request that was issued is answered ----
\* axios answers each request, or fails it (timeout: the request settles)
RequestsSettle ==
    /\ \A id \in LocIds : WF_vars(\E ok \in BOOLEAN : LocationResponds(id, ok))
    /\ \A id \in KeyIds : WF_vars(\E ok \in BOOLEAN : InfoResponds(id, ok))
    /\ \A id \in KeyIds :
          WF_vars(\E ok \in BOOLEAN : WeatherResponds(id, ok, WeatherBody(id[1], id[2])))
    /\ \A id \in KeyIds :
          WF_vars(\E ok \in BOOLEAN : ForecastResponds(id, ok, ForecastBody(id[1], id[2])))

NextPipelineLive ==
    \/ MountHome
    \/ \E c \in Cities : SearchWithin(c, MaxLiveSteps)
    \/ \E l \in I18nLangs : ChangeLanguageWithin(l, MaxLiveSteps)
    \/ RefetchWithin(MaxLiveSteps)
    \/ \E id \in LocIds, ok \in BOOLEAN : LocationResponds(id, ok)
    \/ \E id \in KeyIds, ok \in BOOLEAN : InfoResponds(id, ok)
    \/ \E id \in KeyIds, ok \in BOOLEAN : WeatherResponds(id, ok, WeatherBody(id[1], id[2]))
    \/ \E id \in KeyIds, ok \in BOOLEAN : ForecastResponds(id, ok, ForecastBody(id[1], id[2]))

SpecPipelineLive == InitPipeline /\ [][NextPipelineLive]_vars /\ RequestsSettle

\* ---- the provider client: one call, made directly or by a hook's query ----
InitService ==
    /\ \E via \in {"direct", "hook"}, fn \in ServiceFunctions :
          \E in \in ServiceInputs(fn) : call = NewCall(via, fn, in)
    /\ FavoritesIdle
    /\ ForecastIdle
    /\ PipelineIdle
    /\ UiIdle

\* the function is called with the argument as it is (refetch() does so too)
CallService ==
    /\ call.pc = "ready"
    /\ call.via = "direct"
    /\ call' = [call EXCEPT !.pc = "done", !.invoked = TRUE,
                            !.result = Apply(call.fn, call.arg, call.http)]
    /\ UNCHANGED <<favVars, fcVars, pipeVars, uiVars>>

\* the hook's query mounts with the argument: queryFn runs only when enabled
UseQuery ==
    /\ call.pc = "ready"
    /\ call.via = "hook"
    /\ call' = IF HookEnabled(call.fn, call.arg)
               THEN [call EXCEPT !.pc = "done", !.invoked = TRUE,
                                 !.result = Apply(call.fn, call.arg, call.http)]
               ELSE [call EXCEPT !.pc = "done"]
    /\ UNCHANGED <<favVars, fcVars, pipeVars, uiVars>>

NextService ==
    \/ CallService
    \/ UseQuery

SpecService == InitService /\ [][NextService]_vars

\* ---- the pipeline when the provider answers every request ----
InitCache ==
    /\ PipelineIdle
    /\ FavoritesIdle
    /\ ForecastIdle
    /\ ServiceIdle
    /\ UiIdle

NextCache ==
    \/ MountHome
    \/ \E c \in Cities : SearchWithin(c, MaxCacheSteps)
    \/ \E l \in I18nLangs : ChangeLanguageWithin(l, MaxCacheSteps)
    \/ RefetchWithin(MaxCacheSteps)
    \/ \E id \in LocIds : LocationResponds(id, TRUE)
    \/ \E id \in KeyIds : InfoResponds(id, TRUE)
    \/ \E id \in KeyIds : WeatherResponds(id, TRUE, WeatherBody(id[1], id[2]))
    \/ \E id \in KeyIds : ForecastResponds(id, TRUE, ForecastBody(id[1], id[2]))

SpecCache == InitCache /\ [][NextCache]_vars

CoreIdle ==
    /\ FavoritesIdle
    /\ ForecastIdle
    /\ PipelineIdle
    /\ ServiceIdle

\* ---- the favourites' localized names ----
InitFavLocs ==
    /\ ui \in {[IdleUi EXCEPT !.favLocs = FavLocsFor(favs, l)] :
                   favs \in FavoriteLists, l \in I18nLangs}
    /\ CoreIdle

\* FavoritesPage renders: the query mounts and, when enabled, queryFn starts
\* one lookup for each favorite
MountFavoritesPage ==
    /\ favLocs.pc = "unmounted"
    /\ LET enabled == FavoriteLocationsEnabled(favLocs.favorites) IN
       ui' = [ui EXCEPT !.favLocs = [favLocs EXCEPT
                      !.pc = "mounted",
                      !.query = Subscribe(@, NoLocations, enabled),
                      !.tasks = [i \in 1..Len(favLocs.favorites) |->
                                    IF enabled THEN RunningTask ELSE NoTask]]]
    /\ UNCHANGED coreVars

\* fetchLocationByKey of the i-th favorite returns or throws; Promise.all
\* resolves with the last of them, and the query succeeds
LookupResponds(i, ok) ==
    /\ favLocs.pc = "mounted"
    /\ i \in 1..Len(favLocs.tasks)
    /\ favLocs.tasks[i].state = "running"
    /\ LET fav == favLocs.favorites[i]
           apiLang == getApiLanguage(favLocs.lang)
           http == IF ok THEN HttpOk(LocationBody(fav.locationKey, apiLang))
                   ELSE HttpFail(NoLocation)
           tasks1 == [favLocs.tasks EXCEPT
                         ![i] = FulfilledTask(fav, fetchLocationByKey(fav.locationKey, http))]
           allDone == \A j \in 1..Len(tasks1) : tasks1[j].state = "fulfilled"
           results == [j \in 1..Len(tasks1) |-> tasks1[j].result]
       IN ui' = [ui EXCEPT !.favLocs = [favLocs EXCEPT
                         !.tasks = tasks1,
                         !.query = IF allDone THEN Settle(@, Ok(Locations(results))) ELSE @]]
    /\ UNCHANGED coreVars

NextFavLocs ==
    \/ MountFavoritesPage
    \/ \E i \in 1..MaxFavLocs, ok \in BOOLEAN : LookupResponds(i, ok)

SpecFavLocs == InitFavLocs /\ [][NextFavLocs]_vars

\* ---- the header's two toggles: temperature unit and theme ----
InitSettings ==
    /\ ui \in {[IdleUi EXCEPT !.temperature = TemperatureFor(c), !.themeCtx = ThemeFor(saved)] :
                   c \in CelsiusValues, saved \in StoredThemes}
    /\ CoreIdle

\* the last two of a sequence
LastTwo(seq) == IF Len(seq) <= 2 THEN seq ELSE SubSeq(seq, Len(seq) - 1, Len(seq))

\* toggleUnit: setIsCelsius((prev) => !prev); before is history, the state
\* and the displayed value before each of the last two toggles
toggleUnit ==
    /\ ui' = [ui EXCEPT !.temperature =
          [temperature EXCEPT
              !.isCelsius = ~@,
              !.odd = ~@,
              !.before = LastTwo(Append(@,
                  [isCelsius |-> temperature.isCelsius,
                   celsius |-> temperature.celsius,
                   value |-> convertTemp(temperature.isCelsius, temperature.celsius)]))]]
    /\ UNCHANGED coreVars

\* the page gets another Celsius value from the provider
NewTemperature(c) ==
    /\ c # temperature.celsius
    /\ ui' = [ui EXCEPT !.temperature = [temperature EXCEPT !.celsius = c, !.before = <<>>]]
    /\ UNCHANGED coreVars

\* ThemeProvider's first render (the useState initialiser) and the first run
\* of the effect that saves the theme
MountTheme ==
    /\ themeCtx.pc = "unmounted"
    /\ LET theme == InitialTheme(themeCtx.stored) IN
       ui' = [ui EXCEPT !.themeCtx = [themeCtx EXCEPT !.pc = "mounted", !.theme = theme, !.stored = theme]]
    /\ UNCHANGED coreVars

\* toggleTheme and the effect that follows; before is history, the themes
\* before each of the last two toggles
toggleTheme ==
    /\ themeCtx.pc = "mounted"
    /\ LET theme == ToggledTheme(themeCtx.theme) IN
       ui' = [ui EXCEPT !.themeCtx = [themeCtx EXCEPT
                      !.theme = theme,
                      !.stored = theme,
                      !.before = LastTwo(Append(@, themeCtx.theme))]]
    /\ UNCHANGED coreVars

NextSettings ==
    \/ toggleUnit
    \/ \E c \in CelsiusValues : NewTemperature(c)
    \/ MountTheme
    \/ toggleTheme

SpecSettings == InitSettings /\ [][NextSettings]_vars

\* ---- ErrorBoundary ----
InitBoundary ==
    /\ ui \in {[IdleUi EXCEPT !.boundary = BoundaryFor(child, customFallback)] :
                   child \in {None} \cup RenderErrors, customFallback \in BOOLEAN}
    /\ CoreIdle

\* React renders the children render() returned: they render, or one throws
\* and React calls getDerivedStateFromError, render and componentDidCatch
RenderChildren ==
    /\ boundary.pc = "rendering"
    /\ ui' = [ui EXCEPT !.boundary =
          IF boundary.child = None
          THEN [boundary EXCEPT !.pc = "children", !.last = "render"]
          ELSE LET state == getDerivedStateFromError(boundary.child) IN
               [boundary EXCEPT !.state = state,
                                !.pc = BoundaryRender(state),
                                !.caught = Append(@, boundary.child),
                                !.last = "catch"]]
    /\ UNCHANGED coreVars

\* a child on the screen renders again, with state or props that make it
\* throw c (or nothing)
ChildChanges(c) ==
    /\ boundary.pc = "children"
    /\ Len(boundary.caught) < MaxCrashes
    /\ c # boundary.child
    /\ ui' = [ui EXCEPT !.boundary = [boundary EXCEPT !.child = c, !.pc = "rendering", !.last = "update"]]
    /\ UNCHANGED coreVars

\* while the fallback is shown, what the children would throw changes
ConditionsChange(c) ==
    /\ boundary.pc = "fallback"
    /\ c # boundary.child
    /\ ui' = [ui EXCEPT !.boundary = [boundary EXCEPT !.child = c, !.last = "conditions"]]
    /\ UNCHANGED coreVars

\* the Try again button of the default fallback
handleReset ==
    /\ boundary.pc = "fallback"
    /\ ~boundary.customFallback
    /\ Len(boundary.caught) < MaxCrashes
    /\ ui' = [ui EXCEPT !.boundary = [boundary EXCEPT !.state = ResetState,
                                    !.pc = "rendering",
                                    !.last = "handleReset"]]
    /\ UNCHANGED coreVars

NextBoundary ==
    \/ RenderChildren
    \/ \E c \in {None} \cup RenderErrors : ChildChanges(c)
    \/ \E c \in {None} \cup RenderErrors : ConditionsChange(c)
    \/ handleReset

SpecBoundary == InitBoundary /\ [][NextBoundary]_vars

\* ---- useGeolocation ----
InitGeolocation ==
    /\ ui \in {[IdleUi EXCEPT !.geo = GeoFor(supported)] : supported \in BOOLEAN}
    /\ CoreIdle

getPosition ==
    /\ geo.requests < MaxRequests
    /\ ui' = [ui EXCEPT !.geo = IF ~geo.supported
              THEN [geo EXCEPT !.error = NotSupported, !.requests = @ + 1]
              ELSE [geo EXCEPT !.isLoading = TRUE,
                               !.error = None,
                               !.outstanding = @ + 1,
                               !.requests = @ + 1]]
    /\ UNCHANGED coreVars

\* the browser calls the success callback of one outstanding request
PositionSuccess(pos) ==
    /\ geo.outstanding > 0
    /\ ui' = [ui EXCEPT !.geo = [geo EXCEPT !.position = pos,
                          !.isLoading = FALSE,
                          !.outstanding = @ - 1,
                          !.latest = [kind |-> "success", position |-> pos, message |-> None]]]
    /\ UNCHANGED coreVars

\* the browser calls the error callback of one outstanding request
PositionError(code) ==
    /\ geo.outstanding > 0
    /\ ui' = [ui EXCEPT !.geo = [geo EXCEPT !.error = ErrorMessage(code),
                          !.isLoading = FALSE,
                          !.outstanding = @ - 1,
                          !.latest = [kind |-> "error", position |-> NoPosition,
                                      message |-> ErrorMessage(code)]]]
    /\ UNCHANGED coreVars

NextGeolocation ==
    \/ getPosition
    \/ \E pos \in Positions : PositionSuccess(pos)
    \/ \E code \in ErrorCodes : PositionError(code)

SpecGeolocation == InitGeolocation /\ [][NextGeolocation]_vars

\* ========================================================================
\* Properties
\* ========================================================================
RawLen == Len(fcRaw.DailyForecasts)
Rendered == fcPc = "done" /\ fcRaw.has

\* C5 as stated: for a raw forecast of n days, 0 <= n <= 5, the processed
\* forecast has length 0 if n = 0 and exactly 5 otherwise.
C5_LengthZeroOrFive ==
    (Rendered /\ RawLen <= ForecastDays) =>
        Len(fcOut) = (IF RawLen = 0 THEN 0 ELSE ForecastDays)

\* C5 amended: for a raw forecast of n days, 0 <= n <= 5, the processed forecast
\* has length 0 if n <= 1 (no day after today) and exactly 5 otherwise.
C5_LengthAmended ==
    (Rendered /\ RawLen <= ForecastDays) =>
        Len(fcOut) = (IF RawLen <= 1 THEN 0 ELSE ForecastDays)

\* C5 witness: a three-day response was padded to five entries
C5_Witness == Rendered /\ RawLen = 3 /\ Len(fcOut) = ForecastDays

\* the UTC calendar day of a timestamp
UtcDay(date) == GetTime(date) \div DayMs

\* C6: the processed forecast begins with the provider's days after today in
\* their order; every padded entry equals the last available day in every field
\* but the date, and the k-th padded entry's date is that day's date advanced
\* by k days (k * 24 h, k calendar days in UTC, the calendar toISOString
\* writes), so each padded entry is one day after its predecessor.
C6_PaddingContent ==
    (Rendered /\ RawLen >= 2) =>
        LET raw == fcRaw.DailyForecasts
            m == RawLen - 1
            lastDay == raw[RawLen]
        IN /\ Len(fcOut) >= m
           /\ \A i \in 1..m : fcOut[i] = raw[i + 1]
           /\ \A j \in (m + 1)..Len(fcOut) :
                 /\ [fcOut[j] EXCEPT !.Date = lastDay.Date] = lastDay
                 /\ GetTime(fcOut[j].Date) = GetTime(lastDay.Date) + (j - m) * DayMs
                 /\ UtcDay(fcOut[j].Date) = UtcDay(lastDay.Date) + (j - m)
                 /\ UtcDay(fcOut[j].Date) = UtcDay(fcOut[j - 1].Date) + 1

\* C6 witness: two days after today were followed by three padded entries, the
\* provider's dates carrying a UTC offset
C6_Witness ==
    /\ Rendered /\ RawLen = 3 /\ Len(fcOut) = ForecastDays
    /\ fcRaw.DailyForecasts[3].Date.off # 0
    /\ fcOut[5].Date # fcRaw.DailyForecasts[3].Date

\* C7: once addFavorite(id, name) has appended id, and until id is removed,
\* the favorites hold exactly one entry for id, with that name; a later
\* addFavorite(id, name2) leaves the whole sequence as it was.
C7_AddIdempotent ==
    /\ \A k \in LocationKeys :
          added[k] # None =>
              /\ CountKey(favorites, k) = 1
              /\ \E i \in 1..Len(favorites) :
                    favorites[i] = [locationKey |-> k, defaultName |-> added[k]]
    /\ (lastOp.op = "addFavorite" /\ HasKey(prevFavorites, lastOp.key)) =>
          favorites = prevFavorites

\* C7 witness: addFavorite was called with another name for an id that an
\* earlier addFavorite had appended
C7_Witness ==
    /\ lastOp.op = "addFavorite"
    /\ lastOp.name # ""
    /\ lastOp.key # ""
    /\ added[lastOp.key] \notin {None, lastOp.name}
    /\ HasKey(prevFavorites, lastOp.key)

\* C8: in every state after initialization no two favorites share a locationKey.
C8_UniqueKeys ==
    \A i, j \in 1..Len(favorites) :
        i # j => favorites[i].locationKey # favorites[j].locationKey

NonEmptyCity(c) == c.locationKey # "" /\ c.defaultName # ""

\* C9: every favorite and the last-viewed record, if present, has a non-empty
\* locationKey and a non-empty defaultName; addFavorite and setLastViewedCity
\* with an empty key or name leave the store unchanged.
C9_NonEmptyFields ==
    /\ \A i \in 1..Len(favorites) : NonEmptyCity(favorites[i])
    /\ lastViewedCity # NoCity => NonEmptyCity(lastViewedCity)
    /\ (lastOp.op \in {"addFavorite", "setLastViewedCity"}
        /\ (lastOp.key = "" \/ lastOp.name = "")) =>
          (favorites = prevFavorites /\ lastViewedCity = prevLast)

\* C10: removeFavorite(id) for an id not in the favorites leaves the favorites
\* and the last-viewed slot unchanged; for a member it removes exactly the
\* entries with that id and keeps the order of the others.
C10_RemoveFrame ==
    lastOp.op = "removeFavorite" =>
        /\ lastViewedCity = prevLast
        /\ ~HasKey(prevFavorites, lastOp.key) => favorites = prevFavorites
        /\ HasKey(prevFavorites, lastOp.key) =>
              /\ ~HasKey(favorites, lastOp.key)
              /\ favorites = SelectSeq(prevFavorites, LAMBDA f : f.locationKey # lastOp.key)

\* C11: addFavorite(id, name), with both arguments non-empty and id not yet
\* present, appends {id, name} as the last element and leaves the earlier
\* entries and their order as they were; with removeFavorite keeping the order
\* of what it leaves, the list stays in insertion order
C11_AppendInOrder ==
    /\ (lastOp.op = "addFavorite" /\ lastOp.key # "" /\ lastOp.name # ""
          /\ ~HasKey(prevFavorites, lastOp.key))
         => favorites = Append(prevFavorites,
                               [locationKey |-> lastOp.key, defaultName |-> lastOp.name])
    /\ (lastOp.op = "removeFavorite" /\ lastOp.key # "")
         => favorites = SelectSeq(prevFavorites, LAMBDA f : f.locationKey # lastOp.key)

\* a new id was added to a list that already held another
C11_Witness ==
    /\ lastOp.op = "addFavorite"
    /\ lastOp.key # ""
    /\ lastOp.name # ""
    /\ prevFavorites # <<>>
    /\ ~HasKey(prevFavorites, lastOp.key)
    /\ favorites[Len(favorites)].locationKey = lastOp.key
    /\ Len(favorites) = Len(prevFavorites) + 1

\* C12: of two consecutive calls of setLastViewedCity with the same
\* locationKey, the second writes nothing to the last-viewed slot of durable
\* storage
C12_AntiLoop ==
    (lastOp.op = "setLastViewedCity" /\ prevLast.locationKey = lastOp.key)
        => ~rewroteLastCity

\* ---- the city-resolution pipeline ----
LocationQuery == locQ[ObservedLoc(searchCity, lang)]
LocationInfoQuery == infoQ[ObservedKey(locQ, searchCity, lang)]
WeatherQuery == curQ[ObservedKey(locQ, searchCity, lang)]
ForecastQuery == fcQ[ObservedKey(locQ, searchCity, lang)]
Resolved == useWeatherByCity.locationKey # Null
Exhausted(q) == QIsError(q) /\ q.failureCount = Retry + 1
DependentKinds == {"locationByKey", "current", "forecast"}

\* C1: whenever one of the three fetches started after city resolution
\* (localized name, current conditions, forecast) has failed, the result of
\* useWeatherByCity carries no partial success: weather is null and forecast
\* is empty, and HomePage shows neither
C1_AllOrNothing ==
    (Resolved /\ (QIsError(LocationInfoQuery) \/ QIsError(WeatherQuery) \/ QIsError(ForecastQuery)))
        => /\ useWeatherByCity.weather = NullWeather
           /\ useWeatherByCity.forecast = <<>>
           /\ HomePage.main # "current-weather"
           /\ HomePage.forecast = <<>>

\* C2 (as stated): for a resolved location, when any one of the three
\* dependent fetches has failed after its retries, the localized-name lookup
\* included, the hook's state is error: isError is true and error is non-null
C2_AnyFailureIsError ==
    (Resolved /\ (Exhausted(LocationInfoQuery) \/ Exhausted(WeatherQuery) \/ Exhausted(ForecastQuery)))
        => /\ useWeatherByCity.isError
           /\ useWeatherByCity.error # None

\* C2 (amended): for a resolved location, a failure of the current-conditions
\* or of the forecast fetch after its retries makes the hook's state error
\* (isError true, error non-null); a failure of the localized-name lookup
\* alone does not: isError stays false, error null, and localizedCityName null
C2_ConditionsOrForecastFailureIsError ==
    /\ (Resolved /\ (Exhausted(WeatherQuery) \/ Exhausted(ForecastQuery)))
         => /\ useWeatherByCity.isError
            /\ useWeatherByCity.error # None
    /\ (Resolved /\ Exhausted(LocationInfoQuery)
          /\ ~QIsError(LocationQuery) /\ ~QIsError(WeatherQuery) /\ ~QIsError(ForecastQuery))
         => /\ ~useWeatherByCity.isError
            /\ useWeatherByCity.error = None
            /\ useWeatherByCity.localizedCityName = Null

\* the forecast fetch alone has failed three times, and the state is error
C2_Witness ==
    /\ Resolved
    /\ Exhausted(ForecastQuery)
    /\ WeatherQuery.status = "success"
    /\ LocationInfoQuery.status = "success"
    /\ useWeatherByCity.isError

\* the failures of the search, conditions and forecast fetches of this input,
\* earliest first
FailedFetches == SelectSeq(failOrder, LAMBDA kind : kind # "locationByKey")
ObservedOf(kind) ==
    CASE kind = "location" -> LocationQuery
      [] kind = "current" -> [WeatherQuery EXCEPT !.data = None]
      [] OTHER -> [ForecastQuery EXCEPT !.data = None]

\* C3 (as stated): when fetches of the current input have failed, the error
\* the hook exposes is the error of the one that failed first in time
C3_FirstErrorInTime ==
    (FailedFetches # <<>>) => useWeatherByCity.error = ObservedOf(FailedFetches[1]).error

\* C3 (amended): the error the hook exposes is chosen by a fixed priority,
\* not by time: the search's error if the search has failed, else the
\* conditions' error if that fetch has failed, else the forecast's error, else
\* null; and it is the message the failing service function threw
C3_FirstErrorByPriority ==
    useWeatherByCity.error =
        IF QIsError(LocationQuery)
        THEN (IF Trim(searchCity) = "" THEN "City name is required" ELSE "Error loading location key")
        ELSE IF QIsError(WeatherQuery) THEN "Error loading weather data"
        ELSE IF QIsError(ForecastQuery) THEN "Error loading forecast data"
        ELSE None

\* the forecast fetch failed before the conditions fetch, and the hook exposes
\* the conditions' error
C3_Witness ==
    /\ FailedFetches = <<"forecast", "current">>
    /\ useWeatherByCity.error = "Error loading weather data"

\* C4: when the search for a non-blank city has returned no match, the hook
\* is in notFound (not loading, no error, weather null, forecast empty) and no
\* localized-name, conditions or forecast request was issued for this input
C4_NotFound ==
    (Trim(searchCity) # "" /\ LocationQuery.status = "success" /\ LocationQuery.data = Null)
        => /\ ~useWeatherByCity.isLoading
           /\ ~useWeatherByCity.isError
           /\ useWeatherByCity.error = None
           /\ useWeatherByCity.weather = NullWeather
           /\ useWeatherByCity.forecast = <<>>
           /\ useWeatherByCity.locationKey = Null
           /\ started \cap DependentKinds = {}
           /\ \A q \in {LocationInfoQuery, [WeatherQuery EXCEPT !.data = NoLocation],
                          [ForecastQuery EXCEPT !.data = NoLocation]} :
                  q.fetchStatus = "idle" /\ q.status = "pending" /\ q.failureCount = 0

\* the search for Zzzznotacity was issued and returned no match
C4_Witness ==
    /\ searchCity = "Zzzznotacity"
    /\ "location" \in started
    /\ LocationQuery.status = "success"
    /\ LocationQuery.data = Null
    /\ LocationQuery.fetchStatus = "idle"

C14_NoStaleData ==
    LET r == useWeatherByCity
        apiLang == getApiLanguage(lang)
        found == SearchBody(searchCity, apiLang)
    IN /\ r.locationKey # Null => found # <<>> /\ r.locationKey = found[1].Key
       /\ r.localizedCityName # Null
            => r.locationKey # Null
               /\ r.localizedCityName = LocationBody(r.locationKey, apiLang).LocalizedName
       /\ r.weather # NullWeather
            => r.locationKey # Null /\ r.weather = WeatherBody(r.locationKey, apiLang)[1]
       /\ r.forecast # <<>>
            => r.locationKey # Null
               /\ r.forecast = ProcessForecast(ForecastResponse(ForecastBody(r.locationKey, apiLang)))

\* the search for London was answered after the input had become
\* Zzzznotacity (its dependent queries were never started): the hook exposes
\* no location key
C14_Witness ==
    /\ searchCity = "Zzzznotacity"
    /\ locQ[<<"London", getApiLanguage(lang)>>].status = "success"
    /\ curQ[<<"328328", getApiLanguage(lang)>>] = IdleQuery(NoWeather)
    /\ useWeatherByCity.locationKey = Null

NeverStarted(q) == q.status = "pending" /\ q.fetchStatus = "idle"

\* C15: once the search has yielded a location key, the localized-name, the
\* conditions and the forecast query have all been dispatched, none waiting
\* for another; and none of the three is dispatched for a key that no search
\* has yielded
C15_FanOut ==
    /\ Resolved => /\ ~NeverStarted(LocationInfoQuery)
                   /\ ~NeverStarted(WeatherQuery)
                   /\ ~NeverStarted(ForecastQuery)
    /\ \A id \in KeyIds :
          (~NeverStarted(infoQ[id]) \/ ~NeverStarted(curQ[id]) \/ ~NeverStarted(fcQ[id]))
              => \E c \in Cities : locQ[<<c, id[2]>>].data = id[1]

\* the search has just yielded the key: the three requests are in flight
\* together, each on its first attempt
C15_Witness ==
    /\ Resolved
    /\ DependentKinds \subseteq started
    /\ \A q \in {LocationInfoQuery, [WeatherQuery EXCEPT !.data = NoLocation],
                   [ForecastQuery EXCEPT !.data = NoLocation]} :
          q.fetchStatus = "fetching" /\ q.failureCount = 0 /\ q.status = "pending"

Outstanding(q) == q.fetchStatus = "fetching"
AnyOutstanding ==
    \/ Outstanding(LocationQuery)
    \/ Outstanding(LocationInfoQuery)
    \/ Outstanding(WeatherQuery)
    \/ Outstanding(ForecastQuery)

\* C16: while a fetch started for the current input is outstanding, the hook
\* is pending (isLoading true, isError false) and HomePage shows the skeleton
\* and neither the weather, nor an error message, nor a toast
C16_FanInJoin ==
    AnyOutstanding
        => /\ useWeatherByCity.isLoading
           /\ ~useWeatherByCity.isError
           /\ HomePage.main = "skeleton"
           /\ HomePage.toast = None

\* C17: for a non-blank city the hook's state is exactly one of pending,
\* success, notFound and error: isLoading and isError are never both true, and
\* weather is non-null only with a non-null locationKey
C17_ExactlyOneState ==
    Trim(searchCity) # ""
        => /\ ~(useWeatherByCity.isLoading /\ useWeatherByCity.isError)
           /\ useWeatherByCity.weather # NullWeather => useWeatherByCity.locationKey # Null

AllQueries ==
    {locQ[id] : id \in LocIds}
    \cup {[q EXCEPT !.data = None] : q \in {infoQ[id] : id \in KeyIds}}
    \cup {[q EXCEPT !.data = None] : q \in {curQ[id] : id \in KeyIds}}
    \cup {[q EXCEPT !.data = None] : q \in {fcQ[id] : id \in KeyIds}}

\* C18: a request is attempted at most three times (two retries) and its
\* failure is then surfaced as the query's error; a failure for invalid input
\* (a blank city name, an empty location key) is surfaced at once and never
\* attempted again, refetch() included
C18_RetryPolicy ==
    /\ \A q \in AllQueries :
          /\ q.failureCount <= Retry + 1
          /\ q.failureCount = Retry + 1 => q.status = "error" /\ q.error # None
    /\ \A id \in LocIds :
          (Trim(id[1]) = "" /\ locQ[id].failureCount >= 1)
              => /\ locQ[id].failureCount = 1
                 /\ locQ[id].fetchStatus = "idle"
                 /\ locQ[id].error = "City name is required"
    /\ \A id \in KeyIds :
          id[1] = "" => /\ infoQ[id].failureCount <= 1
                        /\ curQ[id].failureCount <= 1
                        /\ fcQ[id].failureCount <= 1

\* ---- the provider client ----
Called(fn) == call.pc = "done" /\ call.invoked /\ call.fn = fn

\* C19: fetchLocationKey with a non-blank query returns null, and no error,
\* when the provider answers with no match, returns the Key of the first match
\* when there is one, and throws the provider error only when the request
\* itself failed
C19_NotFoundIsNotAnError ==
    (Called("fetchLocationKey") /\ Trim(call.arg) # "")
        => /\ (call.http.ok /\ call.http.body = <<>>)
                => call.result.ok /\ call.result.value = Null
           /\ (call.http.ok /\ call.http.body # <<>>)
                => call.result.ok /\ call.result.value = call.http.body[1].Key
           /\ ~call.result.ok
                <=> ~call.http.ok
           /\ ~call.result.ok => call.result.error = "Error loading location key"

\* the search was answered with no match
C19_WitnessNoMatch ==
    /\ Called("fetchLocationKey")
    /\ call.arg = "Zzzznotacity"
    /\ call.http.ok
    /\ call.http.body = <<>>
    /\ call.result.value = Null

InvalidInputMessage(fn) ==
    CASE fn = "fetchLocationKey" -> "City name is required"
      [] fn = "fetchLocationByKey" -> "Location key is required"
      [] OTHER -> "Invalid locationKey"
BlankArg(fn, arg) ==
    IF fn = "fetchLocationKey" THEN Trim(arg) = "" ELSE arg \in {"", Null}

\* C20: called with a city that trims to empty, or with an empty location
\* key, each service function throws its invalid-input error without sending a
\* request; and a hook whose city is blank or whose key is null or empty does
\* not run its query function at all
C20_ValidationFirst ==
    (call.pc = "done" /\ BlankArg(call.fn, call.arg))
        => /\ ~call.result.sent
           /\ call.invoked => /\ ~call.result.ok
                               /\ call.result.error = InvalidInputMessage(call.fn)
           /\ call.via = "hook" => ~call.invoked

\* fetchWeather was called with an empty key and threw before any request
C20_WitnessEmptyKey ==
    /\ Called("fetchWeather")
    /\ call.arg = ""
    /\ call.http.ok
    /\ call.result.error = "Invalid locationKey"
    /\ ~call.result.sent

\* ---- the favourites' localized names ----
AllLookupsDone ==
    /\ favLocs.pc = "mounted"
    /\ favLocs.favorites # <<>>
    /\ \A i \in 1..Len(favLocs.tasks) : favLocs.tasks[i].state = "fulfilled"

\* C21: the lookups of useFavoriteLocations are started together, one for each
\* favorite; the aggregate never fails, and once all lookups have ended it
\* yields exactly one result per favorite, in favorites order: the fetched
\* localized name where the lookup succeeded, the favorite's own defaultName
\* where it failed
C21_PartialSuccess ==
    LET favs == favLocs.favorites
        apiLang == getApiLanguage(favLocs.lang)
        r == useFavoriteLocations
    IN /\ ~r.isError
       /\ (favLocs.pc = "mounted" /\ favs # <<>>)
            => /\ Len(favLocs.tasks) = Len(favs)
               /\ \A i \in 1..Len(favs) : favLocs.tasks[i].state \in {"running", "fulfilled"}
       /\ ~AllLookupsDone => r.locations = <<>>
       /\ AllLookupsDone
            => /\ favLocs.query.status = "success"
               /\ ~r.isLoading
               /\ Len(r.locations) = Len(favs)
               /\ \A i \in 1..Len(favs) :
                     r.locations[i] =
                         [locationKey |-> favs[i].locationKey,
                          localizedName |-> IF favLocs.tasks[i].failed
                                            THEN favs[i].defaultName
                                            ELSE LocalizedNameOf(favs[i].locationKey, apiLang),
                          defaultName |-> favs[i].defaultName]

\* of three favorites the lookup of the second failed, and the others carry
\* the names fetched in Russian
C21_Witness ==
    /\ AllLookupsDone
    /\ Len(favLocs.favorites) = 3
    /\ favLocs.lang = "ru"
    /\ favLocs.favorites[2].locationKey = "328328"
    /\ favLocs.tasks[2].failed
    /\ ~favLocs.tasks[1].failed
    /\ ~favLocs.tasks[3].failed
    /\ useFavoriteLocations.locations[2].localizedName = "London"
    /\ useFavoriteLocations.locations[3].localizedName # favLocs.favorites[3].defaultName

\* ---- the Favorites Store and durable storage ----
StoreMutations == {"addFavorite", "removeFavorite", "setLastViewedCity"}

WellFormed(item) ==
    /\ item.type = "object"
    /\ {"locationKey", "defaultName"} \subseteq item.fields
    /\ item.lkType = "string"
    /\ item.dnType = "string"

\* C23: whatever storage holds (nothing, text that is not JSON, JSON that is
\* not an array, an array mixing well-formed, wrong-shaped and legacy string
\* items, or a storage whose reads throw), FavoritesProvider mounts, its
\* favorites are the well-formed items of the stored array in stored order
\* (none otherwise), and its last-viewed record is the stored record when that
\* is well-formed and null otherwise
C23_LoadNeverFails ==
    lastOp.op = "mount"
        => LET f == loadedFrom[STORAGE_KEY]
               l == loadedFrom[LAST_CITY_KEY]
               kept == IF f.kind = "json" /\ f.t = "array"
                       THEN SelectSeq(f.items, WellFormed) ELSE <<>>
           IN /\ favPc = "mounted"
              /\ favorites = [i \in 1..Len(kept) |->
                                 [locationKey |-> kept[i].locationKey,
                                  defaultName |-> kept[i].defaultName]]
              /\ lastViewedCity =
                     IF l.kind = "json" /\ l.t = "value" /\ WellFormed(l.obj)
                     THEN [locationKey |-> l.obj.locationKey, defaultName |-> l.obj.defaultName]
                     ELSE NoCity

\* the stored array held a legacy string and a well-formed item, and the
\* stored record had no defaultName: one favorite, and no last-viewed city
C23_Witness ==
    /\ lastOp.op = "mount"
    /\ loadedFrom[STORAGE_KEY] = JsonArray(<<LegacyItem, CityItem("328328", "London")>>)
    /\ loadedFrom[LAST_CITY_KEY] = JsonValue(NoNameItem)
    /\ favorites = <<[locationKey |-> "328328", defaultName |-> "London"]>>
    /\ lastViewedCity = NoCity

\* C24: once FavoritesProvider has initialized, and storage being accessible,
\* storage holds nothing under weather_app_favorites and nothing under
\* weather_app_last_city, whichever of them were present and with whatever
\* value, and no store operation writes them again
C24_NoLegacyKeys ==
    (favPc = "mounted" /\ ~GetItemThrows(storage[OLD_STORAGE_KEY]))
        => /\ storage[OLD_STORAGE_KEY] = Absent
           /\ storage[OLD_LAST_CITY_KEY] = Absent

\* ---- the temperature unit ----
\* C25: the unit is Celsius until toggleUnit has run, and convertTemp(c) = c
\* then; in Fahrenheit convertTemp(c) = c * 9 / 5 + 32 for every Celsius value
\* c (20 gives 68, displayed as 68); each toggleUnit flips the unit and leaves
\* the Celsius value as it is, and two of them restore unit and converted value
C25_UnitConversion ==
    LET c == temperature.celsius
        value == convertTemp(temperature.isCelsius, c)
        before == temperature.before
    IN /\ temperature.isCelsius = ~temperature.odd
       /\ temperature.isCelsius => value = c /\ UnitLabel(temperature.isCelsius) = "C"
       /\ ~temperature.isCelsius
            => /\ 5 * value = 9 * c + 5 * Degrees(32)
               /\ UnitLabel(temperature.isCelsius) = "F"
               /\ c = Degrees(20)
                    => value = Degrees(68) /\ Displayed(temperature.isCelsius, c) = 68
       /\ Len(before) >= 1
            => /\ before[Len(before)].isCelsius = ~temperature.isCelsius
               /\ before[Len(before)].celsius = c
       /\ Len(before) = 2
            => /\ before[1].isCelsius = temperature.isCelsius
               /\ before[1].celsius = c
               /\ before[1].value = value

\* 20 degrees Celsius shown in Fahrenheit, after a third toggle
C25_Witness ==
    /\ ~temperature.isCelsius
    /\ temperature.celsius = Degrees(20)
    /\ Len(temperature.before) = 2
    /\ temperature.before[1].value = Degrees(68)
    /\ temperature.before[2].value = Degrees(20)
    /\ Displayed(temperature.isCelsius, temperature.celsius) = 68

\* ---- ErrorBoundary ----
C26_StateInvariant ==
    /\ boundary.state.hasError <=> boundary.state.error # None
    /\ boundary.state.hasError <=> boundary.pc = "fallback"
    /\ boundary.last = "catch"
         => /\ boundary.state.hasError
            /\ boundary.state.error = boundary.caught[Len(boundary.caught)]
    /\ boundary.last = "handleReset"
         => /\ boundary.state = [hasError |-> FALSE, error |-> None]
            /\ boundary.pc = "rendering"

\* C26: when a child throws while rendering, the boundary records the error
\* with hasError true and shows the fallback in place of the children; it
\* stays so, with that error, until handleReset, which sets hasError false and
\* error null and has the children rendered again; hasError is true exactly
\* when an error is recorded
C26_CrashContainment ==
    /\ []C26_StateInvariant
    /\ [][(boundary.state.hasError /\ boundary'.last # "handleReset")
            => (boundary'.state = boundary.state /\ boundary'.pc = "fallback")]_vars

\* after a crash and Try again, the children are on the screen again
C26_Witness ==
    /\ boundary.last = "render"
    /\ boundary.pc = "children"
    /\ Len(boundary.caught) >= 1
    /\ ~boundary.state.hasError

\* ---- liveness of the pipeline ----
Pending == useWeatherByCity.isLoading
Settled == Trim(searchCity) # "" /\ ~useWeatherByCity.isLoading

C28_LoadingWhileOutstanding ==
    /\ geo.outstanding > 0 => geo.isLoading
    /\ geo.outstanding = 0
         => /\ ~geo.isLoading
            /\ geo.latest.kind = "success" => geo.position = geo.latest.position
            /\ geo.latest.kind = "error" => geo.error = geo.latest.message

\* ---- the theme ----
\* C29: once ThemeProvider has initialized, whatever was stored under
\* 'theme', the theme is light or dark and the stored value equals it;
\* toggleTheme turns light into dark and dark into light, and two of them
\* restore the theme
C29_ThemeLightOrDark ==
    themeCtx.pc = "mounted"
        => /\ themeCtx.theme \in {"light", "dark"}
           /\ themeCtx.stored = themeCtx.theme
           /\ Len(themeCtx.before) >= 1
                => LET prev == themeCtx.before[Len(themeCtx.before)] IN
                   /\ prev = "light" => themeCtx.theme = "dark"
                   /\ prev = "dark" => themeCtx.theme = "light"
           /\ Len(themeCtx.before) = 2 => themeCtx.before[1] = themeCtx.theme

\* ---- refetch ----
\* C30: refetch() of useWeatherByCity issues again every request of the
\* pipeline that is in the error state: with the location key resolved and
\* the conditions or the forecast query failed, the step that calls refetch()
\* leaves that query fetching
C30_RefetchReissues ==
    [][(/\ nSteps' = nSteps + 1
        /\ searchCity' = searchCity
        /\ lang' = lang
        /\ Resolved)
         => LET keyId == ObservedKey(locQ, searchCity, lang) IN
            /\ QIsError(curQ[keyId]) => curQ'[keyId].fetchStatus = "fetching"
            /\ QIsError(fcQ[keyId]) => fcQ'[keyId].fetchStatus = "fetching"]_vars

====
